---- MODULE Spec2Model ----
(***************************************************************************)
(* State-machine model of retro_pc_crt_expand.py.                          *)
(*                                                                         *)
(* Images.  An image is a record [width, height, data].  data[y] is row y. *)
(* For a small image a row is a function x -> pixel and a pixel is a       *)
(* function 0..2 -> 0..255 (R, G, B).  For the 256-pixel-wide images of    *)
(* preprocess, which only moves whole rows, a row is a label: the index of *)
(* the row in the resized image, or BgRow for a row of background colour.  *)
(* An image wider than MaxTrackedWidth that comes out of a resampler has   *)
(* data = NoData: only its size is followed.                               *)
(*                                                                         *)
(* Numbers.  Python floats are modelled as exact rationals [n, d], d > 0.  *)
(* For a ratio with a power-of-two denominator the float64 arithmetic of   *)
(* the program is exact.  Where a factor has no binary representation      *)
(* (0.8 * xblur, 0.6 * xblur, 256 / width) the model lets a result that is *)
(* an integer in exact arithmetic come out one lower after truncation, as  *)
(* a binary rounding error may make it (255 * 0.8 + 255 * (1.0 - 0.8) is   *)
(* 254.99999999999997 in float64).  Scanline and subpixel ratios are drawn *)
(* from ratios with power-of-two denominators only.                        *)
(***************************************************************************)
EXTENDS Integers, Sequences, FiniteSets, TLC

VARIABLES
    pc,                 \* position in the program
    stack,              \* return positions of the calls in progress
    ret,                \* value returned by the last call
    input,              \* the image file opened by main / handed to a function
    argv,               \* command-line values as parsed (line 204)
    args,               \* the argparse namespace main works on
    image,              \* main's image
    scanline_scale,     \* main's scanline_scale
    size_with_margin,   \* main's size_with_margin
    pre,                \* locals of the last preprocess call
    up,                 \* locals of upscale_with_crt_effect
    sp,                 \* locals of generate_subpixel_decomposition
    bg,                 \* locals of the last create_scan_line_bg call
    blur,               \* arguments and result of a direct horizontal_blur call
    trace               \* stages and steps started or finished so far

vars == <<pc, stack, ret, input, argv, args, image, scanline_scale,
          size_with_margin, pre, up, sp, bg, blur, trace>>

-----------------------------------------------------------------------------
(* Bounds of the model *)

\* widest image whose pixels are followed one by one
MaxTrackedWidth == 4
\* tallest source image handed to preprocess
MaxInHeight == 120
\* tallest image handed to generate_subpixel_decomposition
MaxSubpixelHeight == 9

-----------------------------------------------------------------------------
(* Numbers *)

Rat(n, d) == [n |-> n, d |-> d]

Min(a, b) == IF a < b THEN a ELSE b
Max(a, b) == IF a > b THEN a ELSE b

\* Python int() of the rational n/d (d > 0): truncation toward zero
Trunc(n, d) == IF n >= 0 THEN n \div d ELSE -((-n) \div d)

RatLt(a, b) == a.n * b.d < b.n * a.d
RatLe(a, b) == a.n * b.d <= b.n * a.d
RatMul(a, b) == Rat(a.n * b.n, a.d * b.d)
OneMinus(r) == Rat(r.d - r.n, r.d)
Zero == Rat(0, 1)
One == Rat(1, 1)

RECURSIVE IsPow2(_)
IsPow2(k) == k = 1 \/ (k > 1 /\ k % 2 = 0 /\ IsPow2(k \div 2))

\* whether float64 holds the rational exactly (small numerators only)
BinaryExact(r) == r.n = 0 \/ r.n = r.d \/ IsPow2(r.d)

\* int(v * r) for an integer v >= 0 and a float r >= 0: the exact floor, or one
\* less when r is inexact in binary and v * r is an integer in exact arithmetic
FloatTruncMul(v, r) ==
    LET q == Trunc(v * r.n, r.d)
    IN  IF ~BinaryExact(r) /\ (v * r.n) % r.d = 0 /\ q > 0 THEN {q, q - 1} ELSE {q}

-----------------------------------------------------------------------------
(* Images *)

NoData == << >>
BgRow == -1
Img(w, h, d) == [width |-> w, height |-> h, data |-> d]
Tracked(d) == DOMAIN d # {}

Range(lo, hi) == lo .. (hi - 1)

\* Pillow refuses to resize to a size with a side below 1 (ValueError)
ResizeRaises(w, h) == w < 1 \/ h < 1

\* Image.new refuses a negative side
NewRaises(w, h) == w < 0 \/ h < 0

-----------------------------------------------------------------------------
(* preprocess *)

TargetHeight(mode) ==
    IF mode = "MSX1" THEN 192 ELSE IF mode = "MSX2" THEN 212 ELSE 224

\* int(height * (256 / width)) in float64
ScaledHeights(width, height) ==
    FloatTruncMul(height, Rat(256, width))

\* a crop start rounded up
CropStartCeil(current_height, target_height) ==
    (current_height - target_height + 1) \div 2

CropStart(current_height, target_height) == (current_height - target_height) \div 2

PadTop(current_height, target_height) == (target_height - current_height) \div 2

\* a crop that forgets the lower edge
CropRowsToEnd(img, top, bottom) ==
    Img(256, img.height - top, [y \in Range(0, img.height - top) |-> img.data[y + top]])

\* image.crop((0, crop_start, 256, crop_start + target_height))
CropRows(img, top, bottom) ==
    Img(256, bottom - top, [y \in Range(0, bottom - top) |-> img.data[y + top]])

\* new_image.paste(image, (0, pad_top)) on a canvas of background colour
PasteRows(canvas, img, top) ==
    Img(canvas.width, canvas.height,
        [y \in Range(0, canvas.height) |->
            IF y >= top /\ y < top + img.height THEN img.data[y - top]
            ELSE canvas.data[y]])

\* the locals and the result of preprocess when the resize yields new_height rows
PreprocessWith(img, mode, new_height) ==
    LET target_height == TargetHeight(mode)
        resized == Img(256, new_height, [y \in Range(0, new_height) |-> y])
        current_height == resized.height
    IN  IF ResizeRaises(256, new_height)
        THEN [raised |-> TRUE, branch |-> "none", new_height |-> new_height,
              target_height |-> target_height, offset |-> 0, resized |-> NoData,
              image |-> NoData]
        ELSE IF current_height > target_height
        THEN LET crop_start == CropStart(current_height, target_height)
             IN  [raised |-> FALSE, branch |-> "crop", new_height |-> new_height,
                  target_height |-> target_height, offset |-> crop_start,
                  resized |-> resized,
                  image |-> CropRows(resized, crop_start, crop_start + target_height)]
        ELSE LET pad_top == PadTop(current_height, target_height)
                 new_image == Img(256, target_height,
                                  [y \in Range(0, target_height) |-> BgRow])
             IN  [raised |-> FALSE, branch |-> "pad", new_height |-> new_height,
                  target_height |-> target_height, offset |-> pad_top,
                  resized |-> resized,
                  image |-> PasteRows(new_image, resized, pad_top)]

preprocess(img, mode) ==
    { PreprocessWith(img, mode, nh) : nh \in ScaledHeights(img.width, img.height) }

-----------------------------------------------------------------------------
(* Pixels, and the images a resampler may hand back *)

Pixel(r, g, b) == [c \in 0..2 |-> IF c = 0 THEN r ELSE IF c = 1 THEN g ELSE b]

Palette ==
    << Pixel(0, 0, 0), Pixel(255, 255, 255), Pixel(1, 3, 128),
       Pixel(200, 101, 7), Pixel(128, 64, 255) >>

Seeds == { <<0, 0, 1>>, <<1, 0, 0>>, <<0, 1, 3>>, <<1, 2, 2>> }

Pattern(w, h, s) ==
    [y \in Range(0, h) |-> [x \in Range(0, w) |->
        Palette[((s[1] * y + s[2] * x + s[3]) % Len(Palette)) + 1]]]

\* what Image.resize(..., BICUBIC) or ImageEnhance may return at size (w, h):
\* some image of that size
Samples(w, h) ==
    IF w > MaxTrackedWidth THEN { Img(w, h, NoData) }
    ELSE { Img(w, h, Pattern(w, h, s)) : s \in Seeds }

\* image_obj.resize((width, height * 2), NEAREST): every row twice
DoubleRows(img) ==
    Img(img.width, img.height * 2,
        IF Tracked(img.data)
        THEN [y \in Range(0, img.height * 2) |-> img.data[y \div 2]]
        ELSE NoData)

-----------------------------------------------------------------------------
(* scanline darkening, lines 109-113 *)

\* np.clip(v * (1.0 - scan_line_ratio), 0, 255) stored into a uint8 array
DarkenValue(v, scan_line_ratio) ==
    LET r == OneMinus(scan_line_ratio)
    IN  Min(255, Max(0, Trunc(v * r.n, r.d)))

\* the odd rows darkened
DarkenedRowOdd(y) == y % 2 = 1

DarkenedRow(y) == y % 2 = 0

DarkenedColumn(x, width) == x >= 1 /\ x < width - 1

Darken(rgb_image, width, height, scan_line_ratio) ==
    IF ~Tracked(rgb_image) THEN NoData
    ELSE [y \in Range(0, height) |-> [x \in Range(0, width) |->
            IF DarkenedRow(y) /\ DarkenedColumn(x, width)
            THEN [c \in 0..2 |-> DarkenValue(rgb_image[y][x][c], scan_line_ratio)]
            ELSE rgb_image[y][x]]]

-----------------------------------------------------------------------------
(* horizontal_blur *)

\* a blend rounded to the nearest integer
BlurValueRounded(left, cur, ratio) ==
    { (2 * (left * ratio.n + cur * (ratio.d - ratio.n)) + ratio.d) \div (2 * ratio.d) }

\* (left * ratio + cur * (1.0 - ratio)).astype(np.uint8), ratio in [0, 1]
BlurValue(left, cur, ratio) ==
    LET e == left * ratio.n + cur * (ratio.d - ratio.n)
        q == Trunc(e, ratio.d)
    IN  IF ~BinaryExact(ratio) /\ e % ratio.d = 0 /\ q > 0 THEN {q, q - 1} ELSE {q}

\* one channel of one row, left to right; acc holds the updated columns 0..x-1
RECURSIVE BlurChannel(_, _, _, _, _)
BlurChannel(row, width, c, ratio, acc) ==
    LET x == Len(acc)
    IN  IF x >= width THEN {acc}
        ELSE IF x >= width - 1 THEN {Append(acc, row[x][c])}
        ELSE UNION { BlurChannel(row, width, c, ratio, Append(acc, v)) :
                        v \in BlurValue(acc[x], row[x][c], ratio) }

BlurRow(row, width, blur_ratio_rgb) ==
    { [x \in Range(0, width) |->
          [c \in 0..2 |-> IF c = 0 THEN r[x + 1] ELSE IF c = 1 THEN g[x + 1] ELSE b[x + 1]]] :
        r \in BlurChannel(row, width, 0, blur_ratio_rgb[1], <<row[0][0]>>),
        g \in BlurChannel(row, width, 1, blur_ratio_rgb[2], <<row[0][1]>>),
        b \in BlurChannel(row, width, 2, blur_ratio_rgb[3], <<row[0][2]>>) }

\* one blurred row for every distinct row: the arithmetic is deterministic, so
\* rows with the same pixels come out the same
RECURSIVE BlurRows(_, _, _)
BlurRows(rows, width, blur_ratio_rgb) ==
    IF rows = {} THEN { [r \in {} |-> r] }
    ELSE LET first == CHOOSE r \in rows : TRUE
         IN  { [r \in rows |-> IF r = first THEN out ELSE rest[r]] :
                 rest \in BlurRows(rows \ {first}, width, blur_ratio_rgb),
                 out \in BlurRow(first, width, blur_ratio_rgb) }

\* every array horizontal_blur may return (one, unless a ratio is inexact)
horizontal_blur(rgb_image, width, height, blur_ratio_rgb) ==
    IF ~Tracked(rgb_image) THEN { NoData }
    ELSE { [y \in Range(0, height) |-> blurred[rgb_image[y]]] :
             blurred \in BlurRows({ rgb_image[y] : y \in Range(0, height) },
                                  width, blur_ratio_rgb) }

\* [0.8 * xblur_ratio, 0.6 * xblur_ratio, 0.0 * xblur_ratio]
XblurRgb(xblur_ratio) ==
    << RatMul(Rat(4, 5), xblur_ratio), RatMul(Rat(3, 5), xblur_ratio),
       RatMul(Rat(0, 1), xblur_ratio) >>

\* the blurred copy alone
BlurredOnly(a, b) == b

\* np.maximum(rgb_image, boke_rgb)
Maximum(a, b) ==
    IF ~Tracked(a) THEN NoData
    ELSE [y \in DOMAIN a |-> [x \in DOMAIN a[y] |->
            [c \in 0..2 |-> Max(a[y][x][c], b[y][x][c])]]]

-----------------------------------------------------------------------------
(* upscale_with_crt_effect: the values it computes *)

WidthSupported(w) == w = 256 \/ w = 320 \/ w = 512

\* no check of the height
HeightUnchecked(h) == TRUE

HeightSupported(h) == h = 192 \/ h = 212 \/ h = 224

\* int(width * crt_width_ratio)
InnerCrtWidth(width, crt_width_ratio) ==
    Trunc(width * crt_width_ratio.n, crt_width_ratio.d)

\* (width, int(width * 2 * image_obj.height / 586))
FinalSize(width, height) == << width, Trunc(width * 2 * height, 586) >>

\* final_size[1] / (image_obj.height * 2)
ScanlineScale(final_size, height) == Rat(final_size[2], height * 2)

ScanlineEnabled(scan_line_ratio) == scan_line_ratio.n > 0

-----------------------------------------------------------------------------
(* generate_subpixel_decomposition *)

\* the second phase mirrored
KeptChannelMirrored(y, k) == IF y % 8 < 4 THEN k ELSE 2 - k

\* the channel a column keeps: k is the column's place in its group of three
KeptChannel(y, k) == IF y % 8 < 4 THEN k ELSE (k + 1) % 3

\* int(v * ratio) for the two other channels
SubpixelPixel(p, keep, ratio) ==
    [c \in 0..2 |-> IF c = keep THEN p[c] ELSE Trunc(p[c] * ratio.n, ratio.d)]

FullGroup(x, width) == (x - (x % 3)) + 2 < width

Decompose(img, subpixel_effect_ratio) ==
    LET ratio == OneMinus(subpixel_effect_ratio)
    IN  Img(img.width, img.height,
            IF ~Tracked(img.data) THEN NoData
            ELSE [y \in Range(0, img.height) |-> [x \in Range(0, img.width) |->
                    IF FullGroup(x, img.width)
                    THEN SubpixelPixel(img.data[y][x], KeptChannel(y, x % 3), ratio)
                    ELSE Pixel(0, 0, 0)]])

-----------------------------------------------------------------------------
(* create_scan_line_bg *)

\* the locals of a call; column[y] tells whether row y of the one-pixel-wide
\* texture got scan_line_color
create_scan_line_bg(scale, width, height, color, scan_line_ratio) ==
    LET base_height == IF scale.n = 0 THEN 0 ELSE Trunc(height * scale.d, scale.n)
        raised == scale.n = 0 \/ NewRaises(1, base_height) \/ ResizeRaises(width, height)
    IN  [raised |-> raised, scanline_scale |-> scale, width |-> width,
         height |-> height, color |-> color, scan_line_ratio |-> scan_line_ratio,
         base_height |-> base_height,
         column |-> [y \in Range(0, base_height) |->
                        scan_line_ratio.n > 0 /\ y % 2 = 1],
         image |-> Img(width, height, NoData)]

-----------------------------------------------------------------------------
(* Frames *)

Unset == << >>

UpFrame(img, width, crt_width_ratio, xblur_ratio, scan_line_ratio) ==
    [arg_size |-> <<img.width, img.height>>, image_obj |-> img, width |-> width,
     crt_width_ratio |-> crt_width_ratio, xblur_ratio |-> xblur_ratio,
     scan_line_ratio |-> scan_line_ratio, inner_crt_width |-> 0,
     final_size |-> <<0, 0>>, scanline_scale |-> Zero, rgb_image |-> Unset,
     boke_rgb |-> Unset]

SpFrame(img, subpixel_effect_ratio) ==
    [image |-> img, subpixel_effect_ratio |-> subpixel_effect_ratio,
     decomposed |-> Unset, subpixel_img |-> Unset]

\* an exception nobody catches: the calls in progress are abandoned
Raise(exception) ==
    /\ pc' = exception
    /\ stack' = << >>

\* return to the caller, or end when the function was called directly
Return(value) ==
    /\ ret' = value
    /\ IF stack = << >>
       THEN pc' = "returned" /\ stack' = stack
       ELSE pc' = Head(stack) /\ stack' = Tail(stack)

-----------------------------------------------------------------------------
(* upscale_with_crt_effect, step by step *)

\* lines 89-92
UpAssert ==
    /\ pc = "up_L89"
    /\ trace' = Append(trace, "upscale")
    /\ IF WidthSupported(up.image_obj.width) /\ HeightSupported(up.image_obj.height)
       THEN pc' = "up_L95" /\ stack' = stack
       ELSE Raise("AssertionError")
    /\ UNCHANGED <<ret, input, argv, args, image, scanline_scale, size_with_margin,
                   pre, up, sp, bg, blur>>

\* lines 95-98
UpSizes ==
    /\ pc = "up_L95"
    /\ up' = [up EXCEPT !.inner_crt_width = InnerCrtWidth(up.width, up.crt_width_ratio),
                        !.final_size = FinalSize(up.width, up.image_obj.height)]
    /\ pc' = "up_L101"
    /\ UNCHANGED <<stack, ret, input, argv, args, image, scanline_scale,
                   size_with_margin, pre, sp, bg, blur, trace>>

\* lines 101-104
UpResizeInner ==
    /\ pc = "up_L101"
    /\ IF ResizeRaises(up.inner_crt_width, up.image_obj.height)
       THEN /\ Raise("ValueError")
            /\ UNCHANGED <<up, trace>>
       ELSE /\ \E resized \in Samples(up.inner_crt_width, up.image_obj.height) :
                 up' = [up EXCEPT !.image_obj = resized,
                                  !.scanline_scale =
                                      ScanlineScale(up.final_size, resized.height)]
            /\ trace' = Append(trace, "upscale.resize_inner")
            /\ pc' = "up_L105"
            /\ stack' = stack
    /\ UNCHANGED <<ret, input, argv, args, image, scanline_scale, size_with_margin,
                   pre, sp, bg, blur>>

\* line 105 false
UpScanlineSkip ==
    /\ pc = "up_L105"
    /\ ~ScanlineEnabled(up.scan_line_ratio)
    /\ pc' = "up_L117"
    /\ UNCHANGED <<stack, ret, input, argv, args, image, scanline_scale,
                   size_with_margin, pre, up, sp, bg, blur, trace>>

\* line 105 true, lines 107-108
UpDoubleRows ==
    /\ pc = "up_L105"
    /\ ScanlineEnabled(up.scan_line_ratio)
    /\ LET doubled == DoubleRows(up.image_obj)
       IN  up' = [up EXCEPT !.image_obj = doubled, !.rgb_image = doubled.data]
    /\ trace' = Append(trace, "upscale.double_rows")
    /\ pc' = "up_L109"
    /\ UNCHANGED <<stack, ret, input, argv, args, image, scanline_scale,
                   size_with_margin, pre, sp, bg, blur>>

\* lines 109-113
UpDarken ==
    /\ pc = "up_L109"
    /\ up' = [up EXCEPT !.rgb_image =
                 Darken(up.rgb_image, up.image_obj.width, up.image_obj.height,
                        up.scan_line_ratio)]
    /\ trace' = Append(trace, "upscale.scanline")
    /\ pc' = "up_L114"
    /\ UNCHANGED <<stack, ret, input, argv, args, image, scanline_scale,
                   size_with_margin, pre, sp, bg, blur>>

\* line 114
UpFromArray ==
    /\ pc = "up_L114"
    /\ up' = [up EXCEPT !.image_obj = Img(up.image_obj.width, up.image_obj.height,
                                          up.rgb_image)]
    /\ pc' = "up_L117"
    /\ UNCHANGED <<stack, ret, input, argv, args, image, scanline_scale,
                   size_with_margin, pre, sp, bg, blur, trace>>

\* lines 117-119
UpResizeFinal ==
    /\ pc = "up_L117"
    /\ IF ResizeRaises(up.final_size[1], up.final_size[2])
       THEN /\ Raise("ValueError")
            /\ UNCHANGED <<up, trace>>
       ELSE /\ \E resized \in Samples(up.final_size[1], up.final_size[2]) :
                 up' = [up EXCEPT !.image_obj = resized, !.rgb_image = resized.data]
            /\ trace' = Append(trace, "upscale.resize_final")
            /\ pc' = "up_L127"
            /\ stack' = stack
    /\ UNCHANGED <<ret, input, argv, args, image, scanline_scale, size_with_margin,
                   pre, sp, bg, blur>>

\* lines 127-128
UpBlur ==
    /\ pc = "up_L127"
    /\ \E boke_rgb \in horizontal_blur(up.rgb_image, up.image_obj.width,
                                       up.image_obj.height, XblurRgb(up.xblur_ratio)) :
          up' = [up EXCEPT !.boke_rgb = boke_rgb]
    /\ trace' = Append(trace, "upscale.bleed")
    /\ pc' = "up_L130"
    /\ UNCHANGED <<stack, ret, input, argv, args, image, scanline_scale,
                   size_with_margin, pre, sp, bg, blur>>

\* line 130
UpComposite ==
    /\ pc = "up_L130"
    /\ up' = [up EXCEPT !.rgb_image = Maximum(up.rgb_image, up.boke_rgb)]
    /\ trace' = Append(trace, "upscale.composite")
    /\ pc' = "up_L132"
    /\ UNCHANGED <<stack, ret, input, argv, args, image, scanline_scale,
                   size_with_margin, pre, sp, bg, blur>>

\* lines 132-133
UpReturn ==
    /\ pc = "up_L132"
    /\ Return(<< Img(up.image_obj.width, up.image_obj.height, up.rgb_image),
                 up.scanline_scale >>)
    /\ trace' = Append(trace, "upscale.return")
    /\ UNCHANGED <<input, argv, args, image, scanline_scale, size_with_margin,
                   pre, up, sp, bg, blur>>

UpNext ==
    \/ UpAssert
    \/ UpSizes
    \/ UpResizeInner
    \/ UpScanlineSkip
    \/ UpDoubleRows
    \/ UpDarken
    \/ UpFromArray
    \/ UpResizeFinal
    \/ UpBlur
    \/ UpComposite
    \/ UpReturn

-----------------------------------------------------------------------------
(* generate_subpixel_decomposition, step by step *)

\* lines 144-166
SpDecompose ==
    /\ pc = "sp_L144"
    /\ LET out == Decompose(sp.image, sp.subpixel_effect_ratio)
       IN  sp' = [sp EXCEPT !.decomposed = out, !.subpixel_img = out]
    /\ trace' = Append(trace, "subpixel")
    /\ pc' = "sp_L174"
    /\ UNCHANGED <<stack, ret, input, argv, args, image, scanline_scale,
                   size_with_margin, pre, up, bg, blur>>

\* lines 174-176
SpEnhance ==
    /\ pc = "sp_L174"
    /\ \E enhanced \in Samples(sp.subpixel_img.width, sp.subpixel_img.height) :
          sp' = [sp EXCEPT !.subpixel_img = enhanced]
    /\ pc' = "sp_L178"
    /\ UNCHANGED <<stack, ret, input, argv, args, image, scanline_scale,
                   size_with_margin, pre, up, bg, blur, trace>>

\* line 178
SpReturn ==
    /\ pc = "sp_L178"
    /\ Return(sp.subpixel_img)
    /\ trace' = Append(trace, "subpixel.return")
    /\ UNCHANGED <<input, argv, args, image, scanline_scale, size_with_margin,
                   pre, up, sp, bg, blur>>

SpNext ==
    \/ SpDecompose
    \/ SpEnhance
    \/ SpReturn

-----------------------------------------------------------------------------
(* main *)

\* max(0.0, min(1.0, x)) and np.clip(x, 0.0, 1.0)
Clamp01(x) == IF RatLt(x, Zero) THEN Zero ELSE IF RatLt(One, x) THEN One ELSE x

\* lines 205-207
ClampArgs(a) ==
    [a EXCEPT !.xblur_rgb = Clamp01(a.xblur_rgb),
              !.subpixel_effect_ratio = Clamp01(a.subpixel_effect_ratio),
              !.scan_line_ratio = Clamp01(a.scan_line_ratio)]

\* the decomposer called whatever the ratio
SubpixelAlways(a) == TRUE

\* line 214
SubpixelEnabled(a) == a.subpixel_effect_ratio.n > 0

\* no step to the next even number
EvenUpNever(k) == k

\* lines 220-221 and 224-225
EvenUp(k) == IF k % 2 = 1 THEN k + 1 ELSE k

\* lines 217-225
SizeWithMargin(img, a) ==
    << IF a.hmargin THEN EvenUp(Trunc(img.width * 597, 586)) ELSE img.width,
       IF a.vmargin THEN EvenUp(Trunc(img.width * 448, 586)) ELSE img.height >>

\* line 236
ScaledSize(img, scale) ==
    << Trunc(img.width * scale.n, scale.d), Trunc(img.height * scale.n, scale.d) >>

\* lines 205-207
MainClamp ==
    /\ pc = "main_L205"
    /\ args' = ClampArgs(args)
    /\ pc' = "main_L209"
    /\ UNCHANGED <<stack, ret, input, argv, image, scanline_scale, size_with_margin,
                   pre, up, sp, bg, blur, trace>>

\* lines 209-211
MainPreprocess ==
    /\ pc = "main_L209"
    /\ \E r \in preprocess(input, args.mode) :
          /\ pre' = r
          /\ IF r.raised
             THEN /\ Raise("ValueError")
                  /\ trace' = Append(trace, "preprocess")
                  /\ image' = image
             ELSE /\ image' = r.image
                  /\ trace' = trace \o <<"preprocess", "preprocess.return">>
                  /\ pc' = "main_L212"
                  /\ stack' = stack
    /\ UNCHANGED <<ret, input, argv, args, scanline_scale, size_with_margin,
                   up, sp, bg, blur>>

\* lines 212-213, the call
MainCallUpscale ==
    /\ pc = "main_L212"
    /\ up' = UpFrame(image, 586, args.crt_width_ratio, args.xblur_rgb,
                     args.scan_line_ratio)
    /\ stack' = <<"main_L212_ret">> \o stack
    /\ pc' = "up_L89"
    /\ UNCHANGED <<ret, input, argv, args, image, scanline_scale, size_with_margin,
                   pre, sp, bg, blur, trace>>

\* line 212, the assignment
MainAssignUpscale ==
    /\ pc = "main_L212_ret"
    /\ image' = ret[1]
    /\ scanline_scale' = ret[2]
    /\ pc' = "main_L214"
    /\ UNCHANGED <<stack, ret, input, argv, args, size_with_margin, pre, up, sp,
                   bg, blur, trace>>

\* line 214 true, line 216, the call
MainCallSubpixel ==
    /\ pc = "main_L214"
    /\ SubpixelEnabled(args)
    /\ sp' = SpFrame(image, args.subpixel_effect_ratio)
    /\ stack' = <<"main_L216_ret">> \o stack
    /\ pc' = "sp_L144"
    /\ UNCHANGED <<ret, input, argv, args, image, scanline_scale, size_with_margin,
                   pre, up, bg, blur, trace>>

\* line 214 false
MainSkipSubpixel ==
    /\ pc = "main_L214"
    /\ ~SubpixelEnabled(args)
    /\ pc' = "main_L217"
    /\ UNCHANGED <<stack, ret, input, argv, args, image, scanline_scale,
                   size_with_margin, pre, up, sp, bg, blur, trace>>

\* line 216, the assignment
MainAssignSubpixel ==
    /\ pc = "main_L216_ret"
    /\ image' = ret
    /\ pc' = "main_L217"
    /\ UNCHANGED <<stack, ret, input, argv, args, scanline_scale, size_with_margin,
                   pre, up, sp, bg, blur, trace>>

\* lines 217-225
MainMarginSize ==
    /\ pc = "main_L217"
    /\ size_with_margin' = SizeWithMargin(image, args)
    /\ trace' = Append(trace, "compositor")
    /\ pc' = "main_L226"
    /\ UNCHANGED <<stack, ret, input, argv, args, image, scanline_scale, pre, up,
                   sp, bg, blur>>

\* line 226 true, lines 227-234
MainPasteMargin ==
    /\ pc = "main_L226"
    /\ image.width # size_with_margin[1] \/ image.height # size_with_margin[2]
    /\ LET made == create_scan_line_bg(scanline_scale, size_with_margin[1],
                                       size_with_margin[2], args.background_color,
                                       args.scan_line_ratio)
       IN  /\ bg' = made
           /\ IF made.raised
              THEN Raise("ValueError") /\ image' = image
              ELSE image' = made.image /\ pc' = "main_L235" /\ stack' = stack
    /\ trace' = Append(trace, "compositor.margin")
    /\ UNCHANGED <<ret, input, argv, args, scanline_scale, size_with_margin, pre,
                   up, sp, blur>>

\* line 226 false
MainNoMargin ==
    /\ pc = "main_L226"
    /\ ~(image.width # size_with_margin[1] \/ image.height # size_with_margin[2])
    /\ pc' = "main_L235"
    /\ UNCHANGED <<stack, ret, input, argv, args, image, scanline_scale,
                   size_with_margin, pre, up, sp, bg, blur, trace>>

\* line 235 true, lines 236-238
MainScale ==
    /\ pc = "main_L235"
    /\ args.scale.n # 0
    /\ LET scaled_size == ScaledSize(image, args.scale)
       IN  IF ResizeRaises(scaled_size[1], scaled_size[2])
           THEN Raise("ValueError") /\ image' = image
           ELSE /\ \E resized \in Samples(scaled_size[1], scaled_size[2]) :
                     image' = resized
                /\ pc' = "main_L239"
                /\ stack' = stack
    /\ trace' = Append(trace, "compositor.scale")
    /\ UNCHANGED <<ret, input, argv, args, scanline_scale, size_with_margin, pre,
                   up, sp, bg, blur>>

\* line 235 false
MainNoScale ==
    /\ pc = "main_L235"
    /\ args.scale.n = 0
    /\ pc' = "main_L239"
    /\ UNCHANGED <<stack, ret, input, argv, args, image, scanline_scale,
                   size_with_margin, pre, up, sp, bg, blur, trace>>

\* line 239
MainSave ==
    /\ pc = "main_L239"
    /\ trace' = Append(trace, "compositor.return")
    /\ pc' = "done"
    /\ UNCHANGED <<stack, ret, input, argv, args, image, scanline_scale,
                   size_with_margin, pre, up, sp, bg, blur>>

MainNext ==
    \/ MainClamp
    \/ MainPreprocess
    \/ MainCallUpscale
    \/ MainAssignUpscale
    \/ MainCallSubpixel
    \/ MainSkipSubpixel
    \/ MainAssignSubpixel
    \/ MainMarginSize
    \/ MainPasteMargin
    \/ MainNoMargin
    \/ MainScale
    \/ MainNoScale
    \/ MainSave

-----------------------------------------------------------------------------
(* a direct call of horizontal_blur *)

BlurCall ==
    /\ pc = "blur_L72"
    /\ \E out \in horizontal_blur(blur.rgb_image, blur.width, blur.height,
                                  blur.blur_ratio_rgb) :
          /\ blur' = [blur EXCEPT !.result = out]
          /\ Return(out)
    /\ UNCHANGED <<input, argv, args, image, scanline_scale, size_with_margin,
                   pre, up, sp, bg, trace>>

-----------------------------------------------------------------------------
(* The values the runs start from *)

\* the argparse defaults, lines 184-203
DefaultArgs ==
    [mode |-> "MSX1", scale |-> Rat(1, 1), crt_width_ratio |-> Rat(5, 8),
     background_color |-> <<0, 0, 0>>, hmargin |-> FALSE, vmargin |-> FALSE,
     xblur_rgb |-> Zero, subpixel_effect_ratio |-> Zero, scan_line_ratio |-> Zero]

Modes == { "MSX1", "MSX2", "FAMICOM" }

\* command-line ratios: below 0, inside [0, 1], above 1
CliRatios == { Rat(-1, 2), Rat(1, 2), Rat(3, 2) }

Argvs ==
    { [mode |-> m, scale |-> s, crt_width_ratio |-> cw,
       background_color |-> <<0, 0, 0>>, hmargin |-> hm, vmargin |-> vm,
       xblur_rgb |-> xb, subpixel_effect_ratio |-> spr, scan_line_ratio |-> sl] :
        m \in Modes, s \in { Rat(0, 1), Rat(1, 1) },
        cw \in { Rat(-1, 2), Rat(5, 8) }, hm \in BOOLEAN, vm \in BOOLEAN,
        xb \in CliRatios, spr \in CliRatios, sl \in CliRatios }

MainInputs ==
    { Img(256, 192, NoData), Img(320, 200, NoData), Img(100, 100, NoData),
      Img(512, 1, NoData) }

Idle ==
    /\ stack = << >>
    /\ ret = Unset
    /\ image = Unset
    /\ scanline_scale = Zero
    /\ size_with_margin = <<0, 0>>
    /\ pre = Unset
    /\ bg = Unset
    /\ trace = << >>

Init ==
    /\ pc = "main_L205"
    /\ input \in MainInputs
    /\ argv \in Argvs
    /\ args = argv
    /\ up = Unset
    /\ sp = Unset
    /\ blur = Unset
    /\ Idle

Next == MainNext \/ UpNext \/ SpNext

Spec == Init /\ [][Next]_vars

(* preprocess called with any image and mode *)

InWidths == { 49, 100, 128, 256, 320 }

InitPreprocess ==
    /\ pc = "main_L209"
    /\ input \in { Img(w, h, NoData) : w \in InWidths, h \in 1..MaxInHeight }
    /\ argv \in { [DefaultArgs EXCEPT !.mode = m] : m \in Modes \cup {"PC88"} }
    /\ args = argv
    /\ up = Unset
    /\ sp = Unset
    /\ blur = Unset
    /\ Idle

NextPreprocess == MainPreprocess

SpecPreprocess == InitPreprocess /\ [][NextPreprocess]_vars

(* upscale_with_crt_effect called with any image and small target widths *)

UnitRatios == { Rat(0, 1), Rat(1, 2), Rat(1, 1) }

InitUpscale ==
    /\ pc = "up_L89"
    /\ \E w \in {256, 257, 320, 512}, h \in {192, 200, 212, 224},
          width \in 3..MaxTrackedWidth, cw \in { Rat(3, 4), Rat(1, 1) },
          xb \in UnitRatios, sl \in UnitRatios :
          up = UpFrame(Img(w, h, NoData), width, cw, xb, sl)
    /\ input = Unset
    /\ argv = Unset
    /\ args = Unset
    /\ sp = Unset
    /\ blur = Unset
    /\ Idle

SpecUpscale == InitUpscale /\ [][UpNext]_vars

(* generate_subpixel_decomposition called with small images *)

InitSubpixel ==
    /\ pc = "sp_L144"
    /\ \E w \in 1..MaxTrackedWidth, h \in 1..MaxSubpixelHeight,
          r \in UnitRatios \cup { Rat(1, 4) } :
          \E img \in Samples(w, h) : sp = SpFrame(img, r)
    /\ input = Unset
    /\ argv = Unset
    /\ args = Unset
    /\ up = Unset
    /\ blur = Unset
    /\ Idle

SpecSubpixel == InitSubpixel /\ [][SpNext]_vars

(* horizontal_blur called with small arrays *)

BlurRatios == UnitRatios \cup { Rat(1, 4), Rat(3, 4), Rat(4, 5), Rat(3, 5) }

InitBlur ==
    /\ pc = "blur_L72"
    /\ \E w \in 1..MaxTrackedWidth, h \in 1..2,
          r \in BlurRatios, g \in BlurRatios, b \in UnitRatios :
          \E img \in Samples(w, h) :
              blur = [rgb_image |-> img.data, width |-> w, height |-> h,
                      blur_ratio_rgb |-> <<r, g, b>>, result |-> Unset]
    /\ input = Unset
    /\ argv = Unset
    /\ args = Unset
    /\ up = Unset
    /\ sp = Unset
    /\ Idle

NextBlur == BlurCall

SpecBlur == InitBlur /\ [][NextBlur]_vars

-----------------------------------------------------------------------------
(* Properties *)

InTrace(e) == \E i \in 1..Len(trace) : trace[i] = e

Abs(k) == IF k < 0 THEN -k ELSE k

RowsCutTop == image.data[0]
RowsCutBottom == pre.new_height - 1 - image.data[image.height - 1]

\* C8 (amended): when the resized image is higher than the target, the rows
\* kept are a contiguous block of target-height rows of the resized image,
\* new_height - target rows are cut, half of them (rounded down) at the top and
\* the rest at the bottom: an odd difference cuts one row more at the bottom.
C8_CropCutsExtraRowAtBottom ==
    (pc = "main_L212" /\ pre.branch = "crop") =>
        /\ image.height = pre.target_height
        /\ \A y \in 0 .. (image.height - 1) : image.data[y] = RowsCutTop + y
        /\ RowsCutTop >= 0 /\ RowsCutBottom >= 0
        /\ RowsCutTop + RowsCutBottom = pre.new_height - pre.target_height
        /\ RowsCutBottom - RowsCutTop \in {0, 1}
        /\ (RowsCutBottom - RowsCutTop = 1) <=>
               ((pre.new_height - pre.target_height) % 2 = 1)

\* C8 as claimed: an odd difference cuts one row more at the top.
C8_CropCutsExtraRowAtTop ==
    (pc = "main_L212" /\ pre.branch = "crop") =>
        /\ image.height = pre.target_height
        /\ \A y \in 0 .. (image.height - 1) : image.data[y] = RowsCutTop + y
        /\ RowsCutTop + RowsCutBottom = pre.new_height - pre.target_height
        /\ RowsCutTop - RowsCutBottom \in {0, 1}

\* a crop of an odd number of rows
C8_Witness ==
    /\ pc = "main_L212"
    /\ pre.branch = "crop"
    /\ (pre.new_height - pre.target_height) % 2 = 1
    /\ pre.new_height - pre.target_height >= 3

(* ---- C2 ---- *)
ArgSizeUnsupported ==
    \/ up.arg_size[1] \notin {256, 320, 512}
    \/ up.arg_size[2] \notin {192, 212, 224}

\* C2: a call of upscale_with_crt_effect with an image whose width is not 256,
\* 320 or 512 or whose height is not 192, 212 or 224 is at its entry or has
\* failed with the assertion: no resize, scanline, blur or composite step has
\* run, nothing was returned, and the image still has the size it came with.
C2_UnsupportedSizeRejected ==
    (up # Unset /\ ArgSizeUnsupported) =>
        /\ pc \in {"up_L89", "AssertionError"}
        /\ ret = Unset
        /\ \A i \in 1..Len(trace) : trace[i] = "upscale"
        /\ <<up.image_obj.width, up.image_obj.height>> = up.arg_size
        /\ up.rgb_image = Unset /\ up.boke_rgb = Unset

\* the image of 256 x 200 was rejected
C2_Witness ==
    /\ pc = "AssertionError"
    /\ up.arg_size = <<256, 200>>
    /\ trace = <<"upscale">>

(* ---- C3 ---- *)
\* C3 (amended): with hmargin set and an image 586 wide, the margin width is
\* 598: int(586 / 586 * 597) = 597 is odd and the step to the next even number
\* makes it 598.
C3_MarginWidthIs598 ==
    (pc = "main_L226" /\ args.hmargin /\ image.width = 586) =>
        size_with_margin[1] = 598

\* C3 as claimed: the margin width is 597, left alone by the even-rounding.
C3_MarginWidthIs597 ==
    (pc = "main_L226" /\ args.hmargin /\ image.width = 586) =>
        size_with_margin[1] = 597

\* the margin size was computed for a 586-wide image with hmargin set
C3_Witness ==
    /\ pc = "main_L226"
    /\ args.hmargin
    /\ image.width = 586
    /\ size_with_margin[1] > image.width
    /\ InTrace("compositor")

(* ---- C4 ---- *)
StageRank(e) ==
    CASE e = "preprocess" -> 1
      [] e = "preprocess.return" -> 2
      [] e = "upscale" -> 3
      [] e = "upscale.resize_inner" -> 4
      [] e = "upscale.double_rows" -> 5
      [] e = "upscale.scanline" -> 6
      [] e = "upscale.resize_final" -> 7
      [] e = "upscale.bleed" -> 8
      [] e = "upscale.composite" -> 9
      [] e = "upscale.return" -> 10
      [] e = "subpixel" -> 11
      [] e = "subpixel.return" -> 12
      [] e = "compositor" -> 13
      [] e = "compositor.margin" -> 14
      [] e = "compositor.scale" -> 15
      [] e = "compositor.return" -> 16

\* C4: in a run of main the stages start in the order preprocess, upscale
\* (scanline darkening before the bleed filter), subpixel decomposition,
\* compositor (margin, then scaling), each at most once and none before the
\* one before it has returned; the decomposer has run by the time the
\* compositor starts exactly when the subpixel ratio given is above 0.
C4_StagesInOrder ==
    /\ \A i, j \in 1..Len(trace) :
          i < j => StageRank(trace[i]) < StageRank(trace[j])
    /\ InTrace("upscale") => InTrace("preprocess.return")
    /\ InTrace("subpixel") => InTrace("upscale.return")
    /\ InTrace("compositor") => InTrace("upscale.return")
    /\ InTrace("compositor") => (InTrace("subpixel") <=> InTrace("subpixel.return"))
    /\ InTrace("upscale.bleed") =>
          (InTrace("upscale.scanline") <=> argv.scan_line_ratio.n > 0)
    /\ InTrace("subpixel") => argv.subpixel_effect_ratio.n > 0
    /\ InTrace("compositor") =>
          (InTrace("subpixel") <=> argv.subpixel_effect_ratio.n > 0)
    /\ pc = "done" => InTrace("compositor.return")

\* a run that went through every stage, scanlines and margins included
C4_Witness ==
    /\ pc = "done"
    /\ InTrace("upscale.scanline")
    /\ InTrace("upscale.bleed")
    /\ InTrace("subpixel.return")
    /\ InTrace("compositor.margin")
    /\ InTrace("compositor.scale")

(* ---- C5 ---- *)
InUnit(r) == RatLe(Zero, r) /\ RatLe(r, One)

\* C5 as claimed: whatever the command line, upscale_with_crt_effect is entered
\* with xblur and scanline ratios in [0, 1] and a CRT width ratio of at least 0,
\* generate_subpixel_decomposition with a ratio in [0, 1], and
\* create_scan_line_bg with a scanline ratio in [0, 1].
C5_RatiosInRangeAtCalls ==
    /\ pc = "up_L89" =>
          /\ InUnit(up.xblur_ratio)
          /\ InUnit(up.scan_line_ratio)
          /\ RatLe(Zero, up.crt_width_ratio)
    /\ pc = "sp_L144" => InUnit(sp.subpixel_effect_ratio)
    /\ bg # Unset => InUnit(bg.scan_line_ratio)

(* ---- C6 ---- *)
Interior(x, width) == 1 <= x /\ x < width - 1

\* updated[x-1] * ratio + original[x] * (1 - ratio), times the ratio's denominator
BlendTimesD(y, x, c) ==
    LET ratio == blur.blur_ratio_rgb[c + 1]
    IN  blur.result[y][x - 1][c] * ratio.n
          + blur.rgb_image[y][x][c] * (ratio.d - ratio.n)

\* C6 (amended): horizontal_blur goes through every row from left to right and
\* sets each channel c of each interior column x to the float value of
\* updated[x-1] * ratio_c + original[x] * (1 - ratio_c) with its fraction cut
\* off (never rounded up): the floor of the blend, or one less when the ratio
\* has no exact binary form and the blend is an integer that the float
\* arithmetic may miss from below.  updated[x-1] is the left neighbour as
\* already blurred; columns 0 and width-1 keep their values.
C6_BlurTruncates ==
    pc = "returned" =>
        \A y \in 0 .. (blur.height - 1), x \in 0 .. (blur.width - 1), c \in 0..2 :
            LET d == blur.blur_ratio_rgb[c + 1].d
                new == blur.result[y][x][c]
            IN  IF Interior(x, blur.width)
                THEN \/ new * d <= BlendTimesD(y, x, c)
                        /\ BlendTimesD(y, x, c) < (new + 1) * d
                     \/ /\ ~BinaryExact(blur.blur_ratio_rgb[c + 1])
                        /\ BlendTimesD(y, x, c) = (new + 1) * d
                ELSE new = blur.rgb_image[y][x][c]

\* C6 as claimed: the new value is the blend rounded to the nearest integer.
C6_BlurRoundsToNearest ==
    pc = "returned" =>
        \A y \in 0 .. (blur.height - 1), x \in 0 .. (blur.width - 1), c \in 0..2 :
            LET d == blur.blur_ratio_rgb[c + 1].d
                new == blur.result[y][x][c]
            IN  IF Interior(x, blur.width)
                THEN 2 * Abs(new * d - BlendTimesD(y, x, c)) <= d
                ELSE new = blur.rgb_image[y][x][c]

\* a blur returned a row in which a blend with a fraction above one half was
\* cut down, next to a column that had itself been changed
C6_Witness ==
    /\ pc = "returned"
    /\ blur.width >= 4
    /\ \E y \in 0 .. (blur.height - 1), c \in 0..2 :
          LET d == blur.blur_ratio_rgb[c + 1].d
          IN  /\ blur.result[y][1][c] # blur.rgb_image[y][1][c]
              /\ 2 * (BlendTimesD(y, 2, c) % d) > d
              /\ blur.result[y][2][c] * d < BlendTimesD(y, 2, c)

(* ---- C7 ---- *)
Sharp == up.image_obj.data

\* C7: once the upscaler has composited, every channel of every pixel of its
\* output is the larger of the sharp value and the blurred value, so never
\* below the sharp value; the blue channel is the sharp blue; and with an
\* xblur ratio of 0 the output is the sharp image.
C7_BleedNeverDarkens ==
    (pc = "up_L132" /\ Tracked(up.rgb_image)) =>
        /\ \A y \in DOMAIN Sharp : \A x \in DOMAIN Sharp[y] :
              /\ \A c \in 0..2 :
                    /\ up.rgb_image[y][x][c] >= Sharp[y][x][c]
                    /\ up.rgb_image[y][x][c] >= up.boke_rgb[y][x][c]
                    /\ up.rgb_image[y][x][c] \in {Sharp[y][x][c], up.boke_rgb[y][x][c]}
              /\ up.rgb_image[y][x][2] = Sharp[y][x][2]
        /\ DOMAIN up.rgb_image = DOMAIN Sharp
        /\ up.xblur_ratio.n = 0 => up.rgb_image = Sharp

\* an output in which the bleed made one pixel brighter than the sharp image
\* and the blurred copy was darker than the sharp image at another
C7_Witness ==
    /\ pc = "up_L132"
    /\ up.xblur_ratio.n > 0
    /\ \E y \in DOMAIN Sharp : \E x \in DOMAIN Sharp[y] :
          up.rgb_image[y][x][0] > Sharp[y][x][0]
    /\ \E y \in DOMAIN Sharp : \E x \in DOMAIN Sharp[y] :
          up.boke_rgb[y][x][1] < Sharp[y][x][1]

(* ---- C9 ---- *)
Doubled == up.image_obj.data

\* C9, the darkening: with a scanline ratio in (0, 1], after the darkening
\* every channel of every pixel in an even row and an interior column of the
\* row-doubled image is the old value times (1 - ratio) as an 8-bit value (its
\* fraction cut off), so 0 under ratio 1; every pixel in an odd row or in
\* column 0 or width-1 is unchanged.
C9_DarkeningState ==
    pc = "up_L114" =>
        /\ up.image_obj.height = 2 * up.arg_size[2]
        /\ up.scan_line_ratio.n > 0
        /\ \A y \in 0 .. (up.image_obj.height - 1), x \in 0 .. (up.image_obj.width - 1),
              c \in 0..2 :
              LET old == Doubled[y][x][c]
                  new == up.rgb_image[y][x][c]
                  r == up.scan_line_ratio
              IN  IF y % 2 = 0 /\ Interior(x, up.image_obj.width)
                  THEN /\ new \in 0..255
                       /\ new * r.d <= old * (r.d - r.n)
                       /\ old * (r.d - r.n) < (new + 1) * r.d
                       /\ (r.n = r.d => new = 0)
                  ELSE new = old

\* C9, the skip: with ratio 0 the step from line 105 goes to line 117 and leaves
\* the image as it is: no row is doubled, no pixel touched.
C9_SkipStep ==
    (pc = "up_L105" /\ up.scan_line_ratio.n = 0) =>
        (pc' = "up_L117" /\ up' = up /\ trace' = trace)

\* C9: scanline darkening inside the upscaler (both parts above).
C9_ScanlineDarkening == [](C9_DarkeningState) /\ [][C9_SkipStep]_vars

\* a darkening under ratio 1/2 that cut a fraction off and left the odd rows
C9_Witness ==
    /\ pc = "up_L114"
    /\ up.scan_line_ratio = Rat(1, 2)
    /\ up.image_obj.width >= 3
    /\ \E y \in 0 .. (up.image_obj.height - 1) :
          /\ y % 2 = 0
          /\ Doubled[y][1][0] = 255
          /\ up.rgb_image[y][1][0] = 127
          /\ up.rgb_image[y + 1][1][0] = 255

(* ---- C10 ---- *)
\* int(v * (1 - ratio))
Scaled(v) ==
    Trunc(v * (sp.subpixel_effect_ratio.d - sp.subpixel_effect_ratio.n),
          sp.subpixel_effect_ratio.d)

\* the pixel that keeps channel keep of p and scales the two others
Keeps(p, keep) == [c \in 0..2 |-> IF c = keep THEN p[c] ELSE Scaled(p[c])]

FullGroups ==
    { g \in 0 .. (sp.image.width - 1) : g % 3 = 0 /\ g + 2 < sp.image.width }

\* C10 (amended): before the brightness and saturation pass, in every full
\* group of three columns: in rows with row mod 8 < 4 column 0 keeps R, column
\* 1 keeps G and column 2 keeps B; in rows with row mod 8 >= 4 the pattern is
\* shifted by one column, not mirrored: column 0 keeps G, column 1 keeps B and
\* column 2 keeps R.  The two other channels are scaled by (1 - ratio), the
\* fraction cut off.
C10_PhaseBShifted ==
    (pc = "sp_L174" /\ Tracked(sp.image.data)) =>
        \A y \in 0 .. (sp.image.height - 1), g \in FullGroups :
            LET src == sp.image.data[y]
                out == sp.decomposed.data[y]
            IN  IF y % 8 < 4
                THEN /\ out[g] = Keeps(src[g], 0)
                     /\ out[g + 1] = Keeps(src[g + 1], 1)
                     /\ out[g + 2] = Keeps(src[g + 2], 2)
                ELSE /\ out[g] = Keeps(src[g], 1)
                     /\ out[g + 1] = Keeps(src[g + 1], 2)
                     /\ out[g + 2] = Keeps(src[g + 2], 0)

\* C10 as claimed: in rows with row mod 8 >= 4 the pattern is mirrored: column
\* 0 keeps B, column 1 keeps G and column 2 keeps R.
C10_PhaseBMirrored ==
    (pc = "sp_L174" /\ Tracked(sp.image.data)) =>
        \A y \in 0 .. (sp.image.height - 1), g \in FullGroups :
            LET src == sp.image.data[y]
                out == sp.decomposed.data[y]
            IN  IF y % 8 < 4
                THEN /\ out[g] = Keeps(src[g], 0)
                     /\ out[g + 1] = Keeps(src[g + 1], 1)
                     /\ out[g + 2] = Keeps(src[g + 2], 2)
                ELSE /\ out[g] = Keeps(src[g], 2)
                     /\ out[g + 1] = Keeps(src[g + 1], 1)
                     /\ out[g + 2] = Keeps(src[g + 2], 0)

\* a decomposition with rows of both phases in which row 4 shows the shift
C10_Witness ==
    /\ pc = "sp_L174"
    /\ sp.image.width >= 3
    /\ sp.image.height >= 9
    /\ sp.subpixel_effect_ratio = Rat(1, 2)
    /\ sp.decomposed.data[4][0][1] = sp.image.data[4][0][1]
    /\ sp.decomposed.data[4][0][0] < sp.image.data[4][0][0]
    /\ sp.decomposed.data[0][0][0] = sp.image.data[0][0][0]
    /\ sp.decomposed.data[0][0][1] < sp.image.data[0][0][1]

====
